---- MODULE Spec2Model ----
(***************************************************************************)
(* Model of the user-management service: the Express handlers of           *)
(* routes/user.routes.js and routes/auth.routes.js, the mongoose model and *)
(* its hooks (models/user.model.js), the Redis helpers (config/redis.js)   *)
(* and the error handler.  Every await of a handler is one step of the     *)
(* request that runs it; MongoDB (store), the Redis key space (cache) and  *)
(* the RedisBloom filter (bloom) are the shared state.                     *)
(***************************************************************************)
EXTENDS Integers, Sequences, FiniteSets, TLC

VARIABLES store, cache, ttl, bloom, nextId, served, faults, proc

vars == <<store, cache, ttl, bloom, nextId, served, faults, proc>>

(***************************************************************************)
(* Bounds and input domains                                                *)
(***************************************************************************)
MaxRequests == 3

MaxFaults == 1

Procs == {"p1", "p2"}

Usernames == {"alice", "bob"}

\* the usernames a request can name: the ones above and one nobody signs up with
Targets == Usernames \cup {"carol"}

EmailInputs == {"a@x.io", "A@x.io", "b@x.io"}

FullNames == {"", "Ann"}

\* null/undefined where an object is expected, and where a string is expected
Undef == [undefined |-> TRUE]

None == "<undefined>"

(***************************************************************************)
(* models/user.model.js: ROLES and the schema                              *)
(***************************************************************************)
ROLES == {"admin", "editor", "viewer"}

\* schema option lowercase: true (and express-validator normalizeEmail)
toLowerCase(e) == IF e = "A@x.io" THEN "a@x.io" ELSE e

\* toJSON without the delete of the password
toJSONKeepsPassword(f) == f

\* userSchema.methods.toJSON: the document's object without the password
toJSON(f) == [k \in (DOMAIN f) \ {"password"} |-> f[k]]

\* a document read from the store: isNew is false, nothing is modified
hydrate(r) == [isNew |-> FALSE, f |-> r, mod |-> {}]

\* new User(obj): a fresh document, isNew is true, every given path is set
newModel(obj) == [isNew |-> TRUE, f |-> obj, mod |-> DOMAIN obj]

\* doc[field] = value: the path is marked modified when the value changes
setField(doc, k, v) ==
  IF k \in DOMAIN doc.f /\ doc.f[k] = v
    THEN doc
    ELSE [doc EXCEPT !.f = [x \in (DOMAIN doc.f) \cup {k} |->
                               IF x = k THEN v ELSE doc.f[x]],
                     !.mod = doc.mod \cup {k}]

(***************************************************************************)
(* config/redis.js                                                         *)
(***************************************************************************)
ALL_USERS == "all_users"

CACHE_KEYS_USER(username) == "user:" \o username

\* cacheSet that writes nothing
cacheSetDrops(c, key, value, ok) == c

\* cacheSet(key, value, expireSeconds = 3600): the default expiry
DefaultExpireSeconds == 3600

\* GET /all: cacheSet(cacheKey, result, 300)
ListExpireSeconds == 300

\* client.set(key, JSON.stringify(value), {EX}) inside try/catch; the model
\* keeps the values in cache and the EX of each key in ttl
cacheSet(c, key, value, ok) ==
  IF ok THEN [k \in (DOMAIN c) \cup {key} |-> IF k = key THEN value ELSE c[k]]
        ELSE c

\* cacheGet that never finds the key
cacheGetMisses(c, key, ok) == Undef

\* client.get(key): the parsed value, or null on a miss or a caught error
cacheGet(c, key, ok) ==
  IF ok /\ key \in DOMAIN c THEN c[key] ELSE Undef

\* cacheDelete that leaves a marker under a key it did not find
cacheDeleteMarks(c, key, ok) ==
  IF ~ok THEN c
  ELSE IF key \in DOMAIN c THEN [k \in (DOMAIN c) \ {key} |-> c[k]]
  ELSE [k \in (DOMAIN c) \cup {key} |-> IF k = key THEN Undef ELSE c[k]]

\* client.del(key) inside try/catch: removes exactly that key
cacheDelete(c, key, ok) ==
  IF ok THEN [k \in (DOMAIN c) \ {key} |-> c[k]] ELSE c

\* BF.ADD usernames <username>
bfAdd(b, username) == b \cup {username}

\* BF.EXISTS usernames <username>: 1 for every added key; fp is the
\* filter's false positive on a key that was never added
bfExists(b, username, fp) == username \in b \/ fp

\* checkBloomFilter: result === 1, and false from the catch block
checkBloomFilter(b, username, fp, ok) ==
  IF ok THEN bfExists(b, username, fp) ELSE FALSE

(***************************************************************************)
(* The MongoDB collection behind the User model                            *)
(***************************************************************************)
NoError == [name |-> "none", code |-> 0, field |-> ""]

ValidationError(path) == [name |-> "ValidationError", code |-> 0, field |-> path]

DuplicateKeyError(path) == [name |-> "MongoServerError", code |-> 11000, field |-> path]

MongoNetworkError == [name |-> "MongoNetworkError", code |-> 0, field |-> ""]

DocumentNotFoundError == [name |-> "DocumentNotFoundError", code |-> 0, field |-> ""]

ReplyError == [name |-> "ReplyError", code |-> 0, field |-> ""]

\* User.findOne({ username })
findOne(s, username) ==
  IF \E r \in s : r.username = username
    THEN hydrate(CHOOSE r \in s : r.username = username)
    ELSE Undef

\* User.findById(id)
findById(s, id) ==
  IF \E r \in s : r.id = id
    THEN hydrate(CHOOSE r \in s : r.id = id)
    ELSE Undef

\* userSchema.statics.findByEmail: scan of find() comparing lower-cased emails
findByEmail(s, email) ==
  IF \E r \in s : toLowerCase(r.email) = toLowerCase(email)
    THEN hydrate(CHOOSE r \in s : toLowerCase(r.email) = toLowerCase(email))
    ELSE Undef

\* violatedIndex without the unique index on username
violatedIndexNoUsername(s, r) ==
  IF \E q \in s : q.id = r.id THEN "_id"
  ELSE IF \E q \in s : q.email = r.email THEN "email"
  ELSE ""

\* the unique indexes of the collection (_id, email: unique, username: unique):
\* the key pattern of the first index that record r would violate, "" if none
violatedIndex(s, r) ==
  IF \E q \in s : q.id = r.id THEN "_id"
  ELSE IF \E q \in s : q.email = r.email THEN "email"
  ELSE IF \E q \in s : q.username = r.username THEN "username"
  ELSE ""

\* schema validation run by save(): required paths and the role enum
validationFailure(doc) ==
  IF "email" \notin DOMAIN doc.f THEN "email"
  ELSE IF "password" \notin DOMAIN doc.f THEN "password"
  ELSE IF "username" \notin DOMAIN doc.f THEN "username"
  ELSE IF "role" \in DOMAIN doc.f /\ doc.f.role \notin ROLES THEN "role"
  ELSE ""

\* userSchema.pre('save'): hash the password when it is modified
preSave(doc) ==
  IF "password" \in doc.mod THEN [doc EXCEPT !.f.password = "hashed"] ELSE doc

\* userSchema.methods.comparePassword: bcrypt.compare(candidate, this.password)
comparePassword(doc, candidate) == doc.f.password = "hashed" /\ candidate = "plain"

\* the record written by an update of the modified paths of doc onto r
applyDelta(r, doc) ==
  [k \in DOMAIN r |-> IF k \in doc.mod THEN doc.f[k] ELSE r[k]]

\* document.save(): validation, pre-save hook, then insertOne for a new
\* document and updateOne({_id}, {$set: modified paths}) for an existing one.
\* up is whether MongoDB answers.  The result is the error (or NoError), the
\* collection afterwards and the document afterwards.
save(s, doc, up) ==
  LET bad == validationFailure(doc)
      d   == preSave(doc)
      old == CHOOSE r \in s : r.id = d.f.id
      new == applyDelta(old, d)
  IN  IF bad # ""
        THEN [err |-> ValidationError(bad), store |-> s, doc |-> doc]
      ELSE IF ~up
        THEN [err |-> MongoNetworkError, store |-> s, doc |-> d]
      ELSE IF d.isNew
        THEN IF violatedIndex(s, d.f) # ""
               THEN [err |-> DuplicateKeyError(violatedIndex(s, d.f)),
                     store |-> s, doc |-> d]
               ELSE [err |-> NoError, store |-> s \cup {d.f},
                     doc |-> [d EXCEPT !.isNew = FALSE, !.mod = {}]]
      ELSE IF ~(\E r \in s : r.id = d.f.id)
        THEN [err |-> DocumentNotFoundError, store |-> s, doc |-> d]
      ELSE IF violatedIndex(s \ {old}, [new EXCEPT !.id = 0]) # ""
        THEN [err |-> DuplicateKeyError(violatedIndex(s \ {old}, [new EXCEPT !.id = 0])),
              store |-> s, doc |-> d]
      ELSE [err |-> NoError, store |-> (s \ {old}) \cup {new},
            doc |-> [d EXCEPT !.mod = {}]]

\* findOneAndDelete that finds the document and leaves it in the collection
findOneAndDeleteKeeps(s, username) == [store |-> s, doc |-> findOne(s, username)]

\* User.findOneAndDelete({ username }): the removed document or null
findOneAndDelete(s, username) ==
  [store |-> {r \in s : r.username # username}, doc |-> findOne(s, username)]

(***************************************************************************)
(* middleware/errorHandler.js                                              *)
(***************************************************************************)
Response(status, code, message, data) ==
  [status |-> status, code |-> code, message |-> message, data |-> data]

errorHandler(err) ==
  IF err.name = "ValidationError"
    THEN Response(400, "VALIDATION_ERROR", "Validation Error", Undef)
  ELSE IF err.code = 11000
    THEN Response(400, "DUPLICATE_ERROR", err.field \o " already exists", Undef)
  ELSE IF err.name = "MongoNetworkError"
    THEN Response(503, "DATABASE_ERROR", "Database connection error", Undef)
  ELSE Response(500, "INTERNAL_SERVER_ERROR", err.name, Undef)

(***************************************************************************)
(* routes/user.routes.js: GET /all                                         *)
(***************************************************************************)
\* a query-string value is a string or absent
NumberStrings == {"-1", "0", "1", "2", "20", "100", "500"}

parseInt(str) ==
  CASE str = "-1" -> -1 [] str = "0" -> 0 [] str = "1" -> 1 [] str = "2" -> 2
    [] str = "20" -> 20 [] str = "100" -> 100 [] str = "500" -> 500

Max(a, b) == IF a >= b THEN a ELSE b

Min(a, b) == IF a <= b THEN a ELSE b

\* the destructuring default: `x = d` takes d only when x is undefined
orDefault(v, d) == IF v = None THEN d ELSE v

\* `role || "all"`: the right side for undefined and for the empty string
orElse(v, d) == IF v = None \/ v = "" THEN d ELSE v

generateCacheKey(query) ==
  ALL_USERS \o ":" \o orDefault(query.page, "1") \o ":" \o
  orDefault(query.limit, "20") \o ":" \o orDefault(query.sort, "createdAt") \o
  ":" \o orDefault(query.order, "desc") \o ":" \o orElse(query.role, "all") \o
  ":" \o orElse(query.search, "none")

\* validLimit with no upper limit
validLimitUncapped(query) == Max(1, parseInt(orDefault(query.limit, "20")))

validLimit(query) == Min(Max(1, parseInt(orDefault(query.limit, "20"))), 100)

validPage(query) == Max(1, parseInt(orDefault(query.page, "1")))

validSort(query) ==
  IF orDefault(query.sort, "createdAt") \in {"createdAt", "username", "email"}
    THEN orDefault(query.sort, "createdAt") ELSE "createdAt"

validOrder(query) ==
  IF orDefault(query.order, "desc") \in {"asc", "desc"}
    THEN orDefault(query.order, "desc") ELSE "desc"

\* the letters (lower-cased) of the texts of the model
letters(text) ==
  CASE text = "alice" -> {"a", "l", "i", "c", "e"}
    [] text = "bob" -> {"b", "o"}
    [] text = "a@x.io" -> {"a", "x", "i", "o"}
    [] text = "b@x.io" -> {"b", "x", "i", "o"}
    [] text = "Ann" -> {"a", "n"}
    [] OTHER -> {}

\* { $regex: search, $options: "i" } for a search term of one letter
regexMatch(text, search) == toLowerCase(search) \in letters(text)

\* the MongoDB query built from role and search
matches(r, query) ==
  /\ orElse(query.role, "") # "" => r.role = query.role
  /\ orElse(query.search, "") # "" =>
       \/ regexMatch(r.username, query.search)
       \/ regexMatch(r.email, query.search)
       \/ regexMatch(r.fullName, query.search)

\* the collation order of the strings of the model, and createdAt, which
\* grows with the id assigned at creation
sortKey(r, field) ==
  IF field = "createdAt" THEN r.id
  ELSE IF field = "username" THEN (IF r.username = "alice" THEN 1 ELSE 2)
  ELSE (IF r.email = "a@x.io" THEN 1 ELSE 2)

RECURSIVE sorted(_, _, _)
sorted(rs, field, order) ==
  IF rs = {} THEN <<>>
  ELSE LET first == CHOOSE r \in rs : \A q \in rs :
                      IF order = "desc" THEN sortKey(r, field) >= sortKey(q, field)
                                        ELSE sortKey(r, field) <= sortKey(q, field)
       IN  <<first>> \o sorted(rs \ {first}, field, order)

\* .skip(n).limit(m) on a sorted sequence
skipLimit(sq, n, m) ==
  SubSeq(sq, Min(n, Len(sq)) + 1, Min(n + m, Len(sq)))

\* User.find(query).sort(...).skip(...).limit(...), serialised by toJSON
findPage(s, query) ==
  LET sq == skipLimit(sorted({r \in s : matches(r, query)}, validSort(query), validOrder(query)),
                      (validPage(query) - 1) * validLimit(query), validLimit(query))
  IN  [i \in 1..Len(sq) |-> toJSON(sq[i])]

\* User.countDocuments(query)
countDocuments(s, query) == Cardinality({r \in s : matches(r, query)})

ceilDiv(a, b) == (a + b - 1) \div b

listResult(query, users, total) ==
  [metadata |-> [page |-> validPage(query), limit |-> validLimit(query),
                 total |-> total, totalPages |-> ceilDiv(total, validLimit(query))],
   data |-> [users |-> users]]

NoQuery == [page |-> None, limit |-> None, sort |-> None, order |-> None,
            role |-> None, search |-> None]

\* the list queries the requests of the model issue
ListQueries == {NoQuery, [NoQuery EXCEPT !.role = "viewer"]}

\* query strings that set one field each, one that asks for the second page
\* of one record, and two that set role and search
KeyQueries ==
  {NoQuery}
    \cup {[NoQuery EXCEPT !.page = n] : n \in {"-1", "0", "1", "2"}}
    \cup {[NoQuery EXCEPT !.limit = n] : n \in {"-1", "0", "1", "20", "100", "500"}}
    \cup {[NoQuery EXCEPT !.limit = "1", !.page = "2"]}
    \cup {[NoQuery EXCEPT !.sort = f] : f \in {"createdAt", "username", "bogus"}}
    \cup {[NoQuery EXCEPT !.order = o] : o \in {"desc", "asc", "bogus"}}
    \cup {[NoQuery EXCEPT !.role = r] : r \in {"all", "admin", "admin:a"}}
    \cup {[NoQuery EXCEPT !.search = t] : t \in {"none", "a", "a:none"}}
    \cup {[NoQuery EXCEPT !.role = "admin", !.search = "a:none"],
          [NoQuery EXCEPT !.role = "admin", !.search = "a"]}

\* what GET /all does with a query, lines 69-96: the validated page, limit,
\* sort and order and the role and search conditions of the MongoDB query
signature(query) ==
  [page |-> validPage(query), limit |-> validLimit(query),
   sort |-> validSort(query), order |-> validOrder(query),
   role |-> orElse(query.role, None), search |-> orElse(query.search, None)]

(***************************************************************************)
(* Requests.  proc[p] is the request that slot p is serving: its handler   *)
(* (op), its input (args), the handler's locals and the await it is parked *)
(* at (pc).  log collects what the request did; resp is its response.      *)
(***************************************************************************)
Blank ==
  [pc |-> "idle", op |-> "none", args |-> Undef, caller |-> Undef,
   user |-> Undef, stage |-> "", users |-> <<>>, log |-> {}, resp |-> Undef]

\* res.status(..).json(..): the request ends with response r; req.user stays
\* on the request
respond(pr, r) ==
  [Blank EXCEPT !.pc = "done", !.op = pr.op, !.args = pr.args,
                !.caller = pr.caller, !.log = pr.log, !.resp = r]

\* the catch block of the handler: GET /validate answers 500 itself, the
\* other handlers pass the error to errorHandler
handlerError(pr, err) ==
  IF pr.op = "validate"
    THEN respond(pr, Response(500, "SERVER_ERROR",
                              "Error checking username availability", Undef))
    ELSE respond(pr, errorHandler(err))

\* a store call that rejects: the await throws into the handler's catch block
storeFailure(pr) ==
  handlerError([pr EXCEPT !.log = @ \cup {"store-error"}], MongoNetworkError)

\* absorbed with the catch block of the cache helper throwing the error on
absorbedRethrown(cont, ok) ==
  IF ok THEN cont
        ELSE handlerError([cont EXCEPT !.log = @ \cup {"cache-error"}], ReplyError)

\* cacheGet / cacheSet / cacheDelete catch the Redis error and log it: the
\* caller goes on as cont, as it does after a call that went through
absorbed(cont, ok) ==
  IF ok THEN cont ELSE [cont EXCEPT !.log = @ \cup {"cache-error"}]

\* GET /validate, line 135 with the early return dropped
fastPathSkipped(mightExist) == FALSE

\* GET /validate, line 135: `if (!mightExist)` answers at once
fastPath(mightExist) == ~mightExist

\* the body fields a PATCH may carry after the allowedFields filter
allowedFields == {"email", "password", "fullName", "username", "role"}

filteredUpdates(body) == [k \in (DOMAIN body) \cap allowedFields |-> body[k]]

\* validateUserUpdate: normalizeEmail() rewrites the email of the body
sanitize(body) ==
  [k \in DOMAIN body |-> IF k = "email" THEN toLowerCase(body[k]) ELSE body[k]]

\* validateUserUpdate / validateSignup: the fields that fail validation
invalidFields(body) ==
  {k \in DOMAIN body :
     \/ k = "username" /\ body[k] \notin Usernames
     \/ k = "role" /\ body[k] \notin ROLES}

RECURSIVE assign(_, _, _)
\* Object.keys(filteredUpdates).forEach(field => user[field] = ...)
assign(doc, upd, keys) ==
  IF keys = {} THEN doc
  ELSE LET k == CHOOSE x \in keys : TRUE
       IN  assign(setField(doc, k, upd[k]), upd, keys \ {k})

\* patchAfterRename without the admin-only role check
patchAfterRenameAnyRole(pr) ==
  [pr EXCEPT !.pc = "save",
             !.user = assign(pr.user, filteredUpdates(pr.args.body),
                             DOMAIN filteredUpdates(pr.args.body))]

\* PATCH /:username, lines 242-259: the admin-only role check, then the
\* assignment of the fields; the request goes on to user.save()
patchAfterRename(pr) ==
  LET upd == filteredUpdates(pr.args.body)
  IN  IF "role" \in DOMAIN upd /\ pr.caller.f.role # "admin"
        THEN respond(pr, Response(403, "AUTHORIZATION_ERROR",
                                  "Only admins can update user roles", Undef))
        ELSE [pr EXCEPT !.pc = "save", !.user = assign(pr.user, upd, DOMAIN upd)]

\* PATCH /:username, lines 229-240: is the username being changed?
patchAfterEmail(pr) ==
  LET upd == filteredUpdates(pr.args.body)
  IN  IF "username" \in DOMAIN upd /\ upd.username # pr.args.username
        THEN [pr EXCEPT !.pc = "fbu_get", !.stage = "rename"]
        ELSE patchAfterRename(pr)

\* PATCH /:username, lines 206-227: not found, or is the email being changed?
patchAfterTarget(pr, user) ==
  LET upd == filteredUpdates(pr.args.body)
  IN  IF user = Undef
        THEN respond(pr, Response(404, "RESOURCE_NOT_FOUND", "User not found", Undef))
      ELSE IF "email" \in DOMAIN upd /\ upd.email # user.f.email
        THEN [pr EXCEPT !.pc = "p_email", !.user = user]
      ELSE patchAfterEmail([pr EXCEPT !.user = user])

\* the username a findByUsername call of the request looks up
lookupName(pr) ==
  IF pr.stage = "rename" THEN pr.args.body.username ELSE pr.args.username

\* what the handler does with the result of User.findByUsername
afterFind(pr, user) ==
  CASE pr.op = "validate" ->
         respond(pr, Response(200, "OK", "", [available |-> (user = Undef)]))
    [] pr.op = "signup" ->
         IF user # Undef
           THEN respond(pr, Response(400, "DUPLICATE_ERROR", "Username already exists", Undef))
           ELSE [pr EXCEPT !.pc = "s_count"]
    [] pr.op = "patch" /\ pr.stage = "target" -> patchAfterTarget(pr, user)
    [] pr.op = "patch" /\ pr.stage = "rename" ->
         IF user # Undef
           THEN respond(pr, Response(400, "DUPLICATE_ERROR", "Username already exists", Undef))
           ELSE patchAfterRename(pr)

\* new User({ email, password, username, fullName, role }) in POST /signup
signupUser(pr, id, role) ==
  newModel([id |-> id, email |-> toLowerCase(pr.args.email), password |-> "plain",
            username |-> pr.args.username, fullName |-> pr.args.fullName,
            role |-> role])

\* requestedRole handing out the role the body asks for
requestedRoleAsAsked(role) == IF role = None THEN "viewer" ELSE role

\* POST /signup, lines 399-404: the role an admin caller may hand out
requestedRole(role) == IF role = "editor" THEN "editor" ELSE "viewer"

\* addToBloomFilter that returns without sending BF.ADD
addToBloomFilterSkips(b, username, ok) == [bloom |-> b, threw |-> FALSE]

\* addToBloomFilter: `return client.sendCommand(...)` is not awaited inside
\* the try block, so a rejected BF.ADD is thrown to the caller
addToBloomFilter(b, username, ok) ==
  [bloom |-> IF ok THEN bfAdd(b, username) ELSE b, threw |-> ~ok]

\* filterAfterDelete with the username taken out of the filter
filterAfterDeleteRemoves(b, username) == b \ {username}

\* userSchema.post('findOneAndDelete'), both awaits: the cache after the
\* hook has run for a document with this username
invalidation(c, username) ==
  cacheDelete(cacheDelete(c, CACHE_KEYS_USER(username), TRUE), ALL_USERS, TRUE)

\* userSchema.post('findOneAndDelete'): the hook evicts cache keys only, the
\* Bloom filter keeps the username of the deleted document
filterAfterDelete(b, username) == b

\* the success response of the handler after the hooks of save() have run
saved(pr) ==
  IF pr.op = "signup"
    THEN respond(pr, Response(201, "OK", "", [user |-> toJSON(pr.user.f), token |-> pr.user.f.id]))
    ELSE respond(pr, Response(200, "OK", "", [user |-> toJSON(pr.user.f)]))

(***************************************************************************)
(* Initial state: empty collection, empty Redis, filter reserved, no       *)
(* request in progress                                                     *)
(***************************************************************************)
Init ==
  /\ store = {}
  /\ cache = <<>>
  /\ ttl = <<>>
  /\ bloom = {}
  /\ nextId = 1
  /\ served = 0
  /\ faults = 0
  /\ proc = [p \in Procs |-> Blank]

at(p, label) == proc[p].pc = label

\* a response is delivered before anything else happens
NoneDone == \A q \in Procs : proc[q].pc # "done"

become(p, pr) == proc' = [proc EXCEPT ![p] = pr]

\* the outcomes of a call to Redis or MongoDB: it answers (TRUE) or fails
Outcomes == IF faults < MaxFaults THEN BOOLEAN ELSE {TRUE}

failed(ok) == faults' = faults + (IF ok THEN 0 ELSE 1)

\* a request arrives at a free slot
arrives(p) ==
  /\ NoneDone /\ at(p, "idle") /\ served < MaxRequests
  /\ served' = served + 1

\* request p is parked at the await named label
resumes(p, label) == NoneDone /\ at(p, label) /\ served' = served

\* the JWTs in circulation: one per user id ever created; 0 is no header
Tokens == 0..(nextId - 1)

PatchBodies ==
  {<<>>} \cup {[fullName |-> n] : n \in FullNames}
         \cup {[username |-> u] : u \in Usernames \cup {"a!"}}
         \cup {[email |-> e] : e \in EmailInputs}
         \cup {[role |-> r] : r \in {"editor", "admin"}}
         \cup {[password |-> "plain"]}

\* the response has been sent
Finish(p) ==
  /\ at(p, "done")
  /\ become(p, Blank)
  /\ UNCHANGED <<store, cache, ttl, bloom, nextId, served, faults>>

(***************************************************************************)
(* middleware/auth.js: auth, isEditor, isAdmin, then the synchronous head  *)
(* of the handler                                                          *)
(***************************************************************************)
authorized(req, user) ==
  LET pr == [req EXCEPT !.caller = user]
  IN
  IF user = Undef
    THEN respond(pr, Response(401, "AUTHENTICATION_ERROR", "Please authenticate", Undef))
  ELSE IF pr.op = "delete" /\ user.f.role # "admin"
    THEN respond(pr, Response(403, "AUTHORIZATION_ERROR", "Admin access required", Undef))
  ELSE IF pr.op \in {"patch", "list"} /\ user.f.role \notin {"admin", "editor"}
    THEN respond(pr, Response(403, "AUTHORIZATION_ERROR", "Editor access required", Undef))
  ELSE IF pr.op = "me"
    THEN respond(pr, Response(200, "OK", "", [user |-> toJSON(user.f)]))
  ELSE IF pr.op = "delete" THEN [pr EXCEPT !.pc = "d_del"]
  ELSE IF pr.op = "list" THEN [pr EXCEPT !.pc = "l_get"]
  ELSE IF invalidFields(pr.args.body) # {}
    THEN respond(pr, Response(400, "VALIDATION_ERROR", "Validation Error", Undef))
  ELSE IF DOMAIN filteredUpdates(pr.args.body) = {}
    THEN respond(pr, Response(400, "VALIDATION_ERROR", "No valid update fields provided", Undef))
  ELSE [pr EXCEPT !.pc = "fbu_get"]

\* auth: User.findById(decoded.userId); any error answers 401
auth(s, pr, up) ==
  authorized([pr EXCEPT !.log = IF up THEN @ ELSE @ \cup {"store-error"}],
             IF up /\ pr.args.token # 0 THEN findById(s, pr.args.token) ELSE Undef)

(***************************************************************************)
(* Arrival of a request, up to its first await                             *)
(***************************************************************************)
\* GET /users/validate/:username, lines 133-142: the Bloom filter probe and
\* the fast path
Validate(p) ==
  /\ arrives(p)
  /\ \E u \in Usernames, ok \in Outcomes, fp \in BOOLEAN :
       LET pr == [Blank EXCEPT !.op = "validate", !.args = [username |-> u],
                               !.stage = "target",
                               !.log = (IF ok THEN {} ELSE {"bf-error"}) \cup
                                       (IF checkBloomFilter(bloom, u, fp, ok)
                                          THEN {} ELSE {"bf-negative"})]
       IN  /\ become(p, IF fastPath(checkBloomFilter(bloom, u, fp, ok))
                          THEN respond(pr, Response(200, "OK", "", [available |-> TRUE]))
                          ELSE [pr EXCEPT !.pc = "fbu_get"])
           /\ failed(ok)
  /\ UNCHANGED <<store, cache, ttl, bloom, nextId>>

\* POST /auth/signup with a body that passes validateSignup, lines 368-377:
\* User.findByEmail(email)
Signup(p) ==
  /\ arrives(p)
  /\ \E e \in EmailInputs, u \in Usernames, n \in {""},
        r \in {None, "editor", "admin"}, t \in Tokens, up \in Outcomes :
       LET pr == [Blank EXCEPT !.op = "signup", !.stage = "target",
                    !.args = [email |-> toLowerCase(e), username |-> u,
                              fullName |-> n, role |-> r, token |-> t]]
       IN  /\ become(p, IF ~up THEN storeFailure(pr)
                        ELSE IF findByEmail(store, pr.args.email) # Undef
                          THEN respond(pr, Response(400, "DUPLICATE_ERROR",
                                                    "Email already exists", Undef))
                        ELSE [pr EXCEPT !.pc = "fbu_get"])
           /\ failed(up)
  /\ UNCHANGED <<store, cache, ttl, bloom, nextId>>

\* PATCH /users/:username: auth, isEditor, validateUserUpdate, lines 167-203
Patch(p) ==
  /\ arrives(p)
  /\ \E t \in Tokens, u \in Targets, b \in PatchBodies, up \in Outcomes :
       /\ become(p, auth(store, [Blank EXCEPT !.op = "patch", !.stage = "target",
                           !.args = [token |-> t, username |-> u, body |-> sanitize(b)]], up))
       /\ failed(up)
  /\ UNCHANGED <<store, cache, ttl, bloom, nextId>>

\* DELETE /users/:username: auth, isAdmin
Delete(p) ==
  /\ arrives(p)
  /\ \E t \in Tokens, u \in Usernames, up \in Outcomes :
       /\ become(p, auth(store, [Blank EXCEPT !.op = "delete",
                           !.args = [token |-> t, username |-> u]], up))
       /\ failed(up)
  /\ UNCHANGED <<store, cache, ttl, bloom, nextId>>

\* GET /users/all with a query string of qs: auth, isEditor
ListFrom(p, qs) ==
  /\ arrives(p)
  /\ \E t \in Tokens, q \in qs, up \in Outcomes :
       /\ become(p, auth(store, [Blank EXCEPT !.op = "list",
                           !.args = [token |-> t, query |-> q]], up))
       /\ failed(up)
  /\ UNCHANGED <<store, cache, ttl, bloom, nextId>>

List(p) == ListFrom(p, ListQueries)

\* GET /users/: auth, isViewer, the caller's own record
Me(p) ==
  /\ arrives(p)
  /\ \E t \in Tokens, up \in Outcomes :
       /\ become(p, auth(store, [Blank EXCEPT !.op = "me", !.args = [token |-> t]], up))
       /\ failed(up)
  /\ UNCHANGED <<store, cache, ttl, bloom, nextId>>

\* POST /auth/login: User.findByEmail(email), comparePassword, the record and
\* a token
Login(p) ==
  /\ arrives(p)
  /\ \E e \in EmailInputs, pw \in {"plain", "wrong"}, up \in Outcomes :
       LET pr   == [Blank EXCEPT !.op = "login",
                      !.args = [email |-> toLowerCase(e), password |-> pw]]
           user == findByEmail(store, pr.args.email)
       IN  /\ become(p, IF ~up THEN storeFailure(pr)
                        ELSE IF user = Undef \/ ~comparePassword(user, pw)
                          THEN respond(pr, Response(401, "AUTHENTICATION_ERROR",
                                                    "Invalid email or password", Undef))
                        ELSE respond(pr, Response(200, "OK", "",
                                       [user |-> toJSON(user.f), token |-> user.f.id])))
           /\ failed(up)
  /\ UNCHANGED <<store, cache, ttl, bloom, nextId>>

(***************************************************************************)
(* userSchema.statics.findByUsername                                       *)
(***************************************************************************)
\* cacheGet(CACHE_KEYS.USER(username)); a hit returns new this(cached)
FbuGet(p) ==
  /\ resumes(p, "fbu_get")
  /\ \E ok \in Outcomes :
       LET cached == cacheGet(cache, CACHE_KEYS_USER(lookupName(proc[p])), ok)
       IN  /\ become(p, IF cached # Undef
                          THEN afterFind([proc[p] EXCEPT !.log = @ \cup {"hit:" \o proc[p].stage}],
                                         newModel(cached))
                          ELSE absorbed([proc[p] EXCEPT !.pc = "fbu_find"], ok))
           /\ failed(ok)
  /\ UNCHANGED <<store, cache, ttl, bloom, nextId>>

\* this.findOne({ username })
FbuFind(p) ==
  /\ resumes(p, "fbu_find")
  /\ \E up \in Outcomes :
       LET user == findOne(store, lookupName(proc[p]))
           pr   == [proc[p] EXCEPT !.log = @ \cup {"read:" \o proc[p].stage}]
       IN  /\ become(p, IF ~up THEN storeFailure(pr)
                        ELSE IF user # Undef
                          THEN [pr EXCEPT !.pc = "fbu_set", !.users = <<user>>]
                        ELSE afterFind(pr, Undef))
           /\ failed(up)
  /\ UNCHANGED <<store, cache, ttl, bloom, nextId>>

\* cacheSet(CACHE_KEYS.USER(username), user.toJSON()); return user
FbuSet(p) ==
  /\ resumes(p, "fbu_set")
  /\ \E ok \in Outcomes :
       /\ ttl' = cacheSet(ttl, CACHE_KEYS_USER(lookupName(proc[p])), DefaultExpireSeconds, ok)
       /\ cache' = cacheSet(cache, CACHE_KEYS_USER(lookupName(proc[p])),
                            toJSON(proc[p].users[1].f), ok)
       /\ failed(ok)
       /\ become(p, absorbed(afterFind([proc[p] EXCEPT !.users = <<>>], proc[p].users[1]), ok))
  /\ UNCHANGED <<store, bloom, nextId>>

(***************************************************************************)
(* POST /auth/signup                                                       *)
(***************************************************************************)
\* lines 390-416: User.countDocuments(), the first user becomes admin
SCount(p) ==
  /\ resumes(p, "s_count")
  /\ \E up \in Outcomes :
       /\ failed(up)
       /\ IF ~up
            THEN become(p, storeFailure(proc[p])) /\ nextId' = nextId
          ELSE IF Cardinality(store) # 0 /\ proc[p].args.token # 0
            THEN become(p, [proc[p] EXCEPT !.pc = "s_token"]) /\ nextId' = nextId
          ELSE /\ become(p, [proc[p] EXCEPT !.pc = "save",
                     !.user = signupUser(proc[p], nextId,
                                IF Cardinality(store) = 0 THEN "admin" ELSE "viewer")])
               /\ nextId' = nextId + 1
  /\ UNCHANGED <<store, cache, ttl, bloom>>

\* verifyToken: User.findById(decoded.userId), null from the catch block
verifyToken(s, token, up) == IF up THEN findById(s, token) ELSE Undef

\* lines 396-416: the role granted on behalf of an admin caller
SToken(p) ==
  /\ resumes(p, "s_token")
  /\ \E up \in Outcomes :
       LET adminUser == verifyToken(store, proc[p].args.token, up)
           role == IF adminUser # Undef /\ adminUser.f.role = "admin"
                     THEN requestedRole(proc[p].args.role) ELSE "viewer"
       IN  /\ become(p, [proc[p] EXCEPT !.pc = "save",
                           !.user = signupUser(proc[p], nextId, role),
                           !.log = @ \cup (IF up THEN {} ELSE {"token-error"})])
           /\ failed(up)
  /\ nextId' = nextId + 1
  /\ UNCHANGED <<store, cache, ttl, bloom>>

(***************************************************************************)
(* PATCH /users/:username                                                  *)
(***************************************************************************)
\* lines 216-227: User.findByEmail(filteredUpdates.email)
PEmail(p) ==
  /\ resumes(p, "p_email")
  /\ \E up \in Outcomes :
       /\ become(p, IF ~up THEN storeFailure(proc[p])
                    ELSE IF findByEmail(store, proc[p].args.body.email) # Undef
                      THEN respond(proc[p], Response(400, "DUPLICATE_ERROR",
                                                     "Email already exists", Undef))
                    ELSE patchAfterEmail(proc[p]))
       /\ failed(up)
  /\ UNCHANGED <<store, cache, ttl, bloom, nextId>>

(***************************************************************************)
(* user.save() and userSchema.post('save')                                 *)
(***************************************************************************)
Save(p) ==
  /\ resumes(p, "save")
  /\ \E up \in Outcomes :
       LET r == save(store, proc[p].user, up)
       IN  /\ store' = r.store
           /\ become(p, IF r.err # NoError
                          THEN handlerError([proc[p] EXCEPT !.log = @ \cup {"save:" \o r.err.name} \cup
                                          (IF r.err = MongoNetworkError
                                             THEN {"store-error"} ELSE {})], r.err)
                          ELSE [proc[p] EXCEPT !.pc = "post_bf", !.user = r.doc,
                                  !.log = @ \cup {IF proc[p].user.isNew THEN "inserted"
                                                                        ELSE "updated"}])
           /\ failed(up \/ validationFailure(proc[p].user) # "")
  /\ UNCHANGED <<cache, ttl, bloom, nextId>>

\* await addToBloomFilter(this.username)
PostBf(p) ==
  /\ resumes(p, "post_bf")
  /\ \E ok \in Outcomes :
       LET r == addToBloomFilter(bloom, proc[p].user.f.username, ok)
           pr == [proc[p] EXCEPT !.log = @ \cup (IF ok THEN {} ELSE {"bf-error"})]
       IN  /\ bloom' = r.bloom
           /\ become(p, IF r.threw THEN handlerError(pr, ReplyError)
                                   ELSE [pr EXCEPT !.pc = "post_set"])
           /\ failed(ok)
  /\ UNCHANGED <<store, cache, ttl, nextId>>

\* await cacheSet(CACHE_KEYS.USER(this.username), this.toJSON())
PostSet(p) ==
  /\ resumes(p, "post_set")
  /\ \E ok \in Outcomes :
       /\ ttl' = cacheSet(ttl, CACHE_KEYS_USER(proc[p].user.f.username), DefaultExpireSeconds, ok)
       /\ cache' = cacheSet(cache, CACHE_KEYS_USER(proc[p].user.f.username),
                            toJSON(proc[p].user.f), ok)
       /\ failed(ok)
       /\ become(p, absorbed([proc[p] EXCEPT !.pc = "post_del"], ok))
  /\ UNCHANGED <<store, bloom, nextId>>

\* await cacheDelete(CACHE_KEYS.ALL_USERS), then the handler answers
PostDel(p) ==
  /\ resumes(p, "post_del")
  /\ \E ok \in Outcomes :
       /\ cache' = cacheDelete(cache, ALL_USERS, ok)
       /\ ttl' = cacheDelete(ttl, ALL_USERS, ok)
       /\ failed(ok)
       /\ become(p, absorbed(saved(proc[p]), ok))
  /\ UNCHANGED <<store, bloom, nextId>>

(***************************************************************************)
(* DELETE /users/:username and userSchema.post('findOneAndDelete')         *)
(***************************************************************************)
DDel(p) ==
  /\ resumes(p, "d_del")
  /\ \E up \in Outcomes :
       LET r == findOneAndDelete(store, proc[p].args.username)
       IN  /\ failed(up)
           /\ IF ~up
                THEN become(p, storeFailure(proc[p])) /\ store' = store
              ELSE /\ store' = r.store
                   /\ become(p, IF r.doc = Undef
                                  THEN respond(proc[p], Response(404, "RESOURCE_NOT_FOUND",
                                                                 "User not found", Undef))
                                  ELSE [proc[p] EXCEPT !.pc = "d_hook1", !.user = r.doc])
  /\ UNCHANGED <<cache, ttl, bloom, nextId>>

\* await cacheDelete(CACHE_KEYS.USER(doc.username))
DHook1(p) ==
  /\ resumes(p, "d_hook1")
  /\ \E ok \in Outcomes :
       /\ cache' = cacheDelete(cache, CACHE_KEYS_USER(proc[p].user.f.username), ok)
       /\ ttl' = cacheDelete(ttl, CACHE_KEYS_USER(proc[p].user.f.username), ok)
       /\ failed(ok)
       /\ become(p, absorbed([proc[p] EXCEPT !.pc = "d_hook2"], ok))
  /\ bloom' = filterAfterDelete(bloom, proc[p].user.f.username)
  /\ UNCHANGED <<store, nextId>>

\* await cacheDelete(CACHE_KEYS.ALL_USERS), then the handler answers
DHook2(p) ==
  /\ resumes(p, "d_hook2")
  /\ \E ok \in Outcomes :
       /\ cache' = cacheDelete(cache, ALL_USERS, ok)
       /\ ttl' = cacheDelete(ttl, ALL_USERS, ok)
       /\ failed(ok)
       /\ become(p, absorbed(respond(proc[p], Response(200, "OK", "User deleted successfully",
                                                        Undef)), ok))
  /\ UNCHANGED <<store, bloom, nextId>>

(***************************************************************************)
(* GET /users/all                                                          *)
(***************************************************************************)
\* lines 76-83: cacheGet(cacheKey), a hit is returned verbatim
LGet(p) ==
  /\ resumes(p, "l_get")
  /\ \E ok \in Outcomes :
       LET cached == cacheGet(cache, generateCacheKey(proc[p].args.query), ok)
       IN  /\ become(p, IF cached # Undef
                          THEN respond([proc[p] EXCEPT !.log = @ \cup {"hit"}],
                                       Response(200, "OK", "", cached))
                          ELSE absorbed([proc[p] EXCEPT !.pc = "l_find"], ok))
           /\ failed(ok)
  /\ UNCHANGED <<store, cache, ttl, bloom, nextId>>

\* lines 98-102: User.find(query).sort().skip().limit()
LFind(p) ==
  /\ resumes(p, "l_find")
  /\ \E up \in Outcomes :
       /\ become(p, IF ~up THEN storeFailure(proc[p])
                    ELSE [proc[p] EXCEPT !.pc = "l_count", !.log = @ \cup {"read"},
                            !.users = findPage(store, proc[p].args.query)])
       /\ failed(up)
  /\ UNCHANGED <<store, cache, ttl, bloom, nextId>>

\* lines 104-116: User.countDocuments(query) and the composed result
LCount(p) ==
  /\ resumes(p, "l_count")
  /\ \E up \in Outcomes :
       /\ become(p, IF ~up THEN storeFailure(proc[p])
                    ELSE [proc[p] EXCEPT !.pc = "l_set", !.users = <<>>,
                            !.user = listResult(proc[p].args.query, proc[p].users,
                                       countDocuments(store, proc[p].args.query))])
       /\ failed(up)
  /\ UNCHANGED <<store, cache, ttl, bloom, nextId>>

\* lines 118-121: cacheSet(cacheKey, result, 300); res.json(result)
LSet(p) ==
  /\ resumes(p, "l_set")
  /\ \E ok \in Outcomes :
       /\ cache' = cacheSet(cache, generateCacheKey(proc[p].args.query), proc[p].user, ok)
       /\ ttl' = cacheSet(ttl, generateCacheKey(proc[p].args.query), ListExpireSeconds, ok)
       /\ failed(ok)
       /\ become(p, absorbed(respond(proc[p], Response(200, "OK", "", proc[p].user)), ok))
  /\ UNCHANGED <<store, bloom, nextId>>

(***************************************************************************)
(* Redis: a key set with EX expires                                        *)
(***************************************************************************)
Expire ==
  /\ NoneDone
  /\ \E key \in DOMAIN cache :
       /\ cache' = cacheDelete(cache, key, TRUE)
       /\ ttl' = cacheDelete(ttl, key, TRUE)
  /\ UNCHANGED <<store, bloom, nextId, served, faults, proc>>

(***************************************************************************)
(* Specifications                                                          *)
(***************************************************************************)
Arrive(p) ==
  Validate(p) \/ Signup(p) \/ Login(p) \/ Me(p) \/ Patch(p) \/ Delete(p) \/ List(p)

Step(p) ==
  \/ Finish(p) \/ FbuGet(p) \/ FbuFind(p) \/ FbuSet(p)
  \/ SCount(p) \/ SToken(p) \/ PEmail(p)
  \/ Save(p) \/ PostBf(p) \/ PostSet(p) \/ PostDel(p)
  \/ DDel(p) \/ DHook1(p) \/ DHook2(p)
  \/ LGet(p) \/ LFind(p) \/ LCount(p) \/ LSet(p)

\* one request at a time
Next ==
  \/ \E p \in Procs : (\A q \in Procs : at(q, "idle")) /\ p = "p1" /\ Arrive(p)
  \/ \E p \in Procs : Step(p)
  \/ Expire

Spec == Init /\ [][Next]_vars

\* the requests of the overlapping runs: an anonymous signup, and the other
\* requests sent by the first user with one body per kind of change
overlapInput(pr) ==
  CASE pr.op = "signup" -> pr.args.token \in {0, 1} /\
                           pr.args.role = (IF pr.args.token = 0 THEN None ELSE "editor")
    [] pr.op = "patch" -> pr.args.token = 1 /\ pr.args.username \in Usernames /\
                          pr.args.body \in {[fullName |-> "Ann"], [username |-> "bob"],
                                            [username |-> "alice"], [email |-> "b@x.io"],
                                            [password |-> "plain"]}
    [] pr.op = "delete" -> pr.args.token = 1
    [] pr.op = "list" -> pr.args.token = 1 /\ pr.args.query = NoQuery
    [] pr.op = "me" -> pr.args.token = 1
    [] pr.op = "login" -> pr.args.email = "a@x.io" /\ pr.args.password = "plain"
    [] OTHER -> TRUE

\* requests overlap: a handler is suspended at each await, and the last
\* request is served by the second slot while the one before it is parked
ConcNext ==
  \/ \E p \in Procs : p = "p1" /\ at("p2", "idle") /\ Arrive(p) /\ overlapInput(proc'[p])
  \/ \E p \in Procs : p = "p2" /\ ~at("p1", "idle") /\ served = MaxRequests - 1
                        /\ Arrive(p) /\ overlapInput(proc'[p])
  \/ \E p \in Procs : Step(p)
  \/ Expire

ConcSpec == Init /\ [][ConcNext]_vars

\* the steps of a signup and of a list request
ListStep(p) ==
  \/ Finish(p) \/ FbuGet(p) \/ FbuFind(p) \/ FbuSet(p)
  \/ SCount(p) \/ SToken(p)
  \/ Save(p) \/ PostBf(p) \/ PostSet(p) \/ PostDel(p)
  \/ LGet(p) \/ LFind(p) \/ LCount(p) \/ LSet(p)

\* signups and list requests with the query strings of KeyQueries, one
\* request at a time
ListNext ==
  \/ \E p \in Procs : (\A q \in Procs : at(q, "idle")) /\ p = "p1" /\ Signup(p)
  \/ \E p \in Procs : (\A q \in Procs : at(q, "idle")) /\ p = "p1" /\ ListFrom(p, KeyQueries)
  \/ \E p \in Procs : ListStep(p)
  \/ Expire

ListSpec == Init /\ [][ListNext]_vars

\* the store and Redis after POST /signup alice, POST /signup bob, the expiry
\* of 'user:bob' and a PATCH /bob {fullName: "Ann"} whose post-save cacheSet
\* failed: the entry 'user:bob' is the one findByUsername wrote before the
\* save
afterFailedRefresh ==
  LET alice == [username |-> "alice", id |-> 1, email |-> "a@x.io", role |-> "admin",
                password |-> "hashed", fullName |-> ""]
      bob   == [username |-> "bob", id |-> 2, email |-> "b@x.io", role |-> "viewer",
                password |-> "hashed", fullName |-> ""]
  IN  /\ store = {alice, [bob EXCEPT !.fullName = "Ann"]}
      /\ cache = [key \in {CACHE_KEYS_USER("alice"), CACHE_KEYS_USER("bob")} |->
                    IF key = CACHE_KEYS_USER("alice") THEN toJSON(alice) ELSE toJSON(bob)]
      /\ ttl = [key \in {CACHE_KEYS_USER("alice"), CACHE_KEYS_USER("bob")} |->
                  DefaultExpireSeconds]
      /\ bloom = {"alice", "bob"}
      /\ nextId = 3

\* the requests that follow those three
StaleInit ==
  /\ afterFailedRefresh
  /\ served = 0
  /\ faults = 0
  /\ proc = [p \in Procs |-> Blank]

PatchSpec == StaleInit /\ [][Next]_vars

(***************************************************************************)
(* Properties                                                              *)
(***************************************************************************)
\* request p has just been answered
answered(p, op) == at(p, "done") /\ proc[p].op = op

hasRecord(username) == \E r \in store : r.username = username

recordOf(username) == CHOOSE r \in store : r.username = username

\* what a findByUsername that starts now and finds Redis answering returns
visible(username) ==
  IF CACHE_KEYS_USER(username) \in DOMAIN cache THEN cache[CACHE_KEYS_USER(username)]
  ELSE IF hasRecord(username) THEN toJSON(recordOf(username))
  ELSE Undef

\* C1: after a successful create, update or delete has been answered, no
\* list-query cache entry written before it is left in the cache
C1_NoListEntrySurvivesMutation ==
  \A p \in Procs :
    /\ at(p, "done") /\ proc[p].op \in {"signup", "patch", "delete"}
    /\ proc[p].resp.status \in {200, 201}
    => \A q \in ListQueries : generateCacheKey(q) \notin DOMAIN cache

\* C2: when the Bloom filter probe fails, the availability check does not take
\* the fast path: it never answers available=true for a stored username
C2_FilterErrorFailsOpen ==
  \A p \in Procs :
    /\ answered(p, "validate") /\ "bf-error" \in proc[p].log
    /\ hasRecord(proc[p].args.username)
    => proc[p].resp.data # [available |-> TRUE]

\* C3: the availability check never answers available=true for a username
\* that has a record in the store
C3_StoredUsernameNotAvailable ==
  \A p \in Procs :
    answered(p, "validate") /\ proc[p].resp.status = 200 /\ hasRecord(proc[p].args.username)
    => proc[p].resp.data = [available |-> FALSE]

\* C4: an update of the full name of an existing user whose record was
\* answered from an up-to-date cache entry succeeds, as it does from the store
C4_UpdateSucceedsFromCache ==
  \A p \in Procs :
    /\ answered(p, "patch") /\ "hit:target" \in proc[p].log
    /\ DOMAIN proc[p].args.body = {"fullName"}
    /\ hasRecord(proc[p].args.username)
    /\ visible(proc[p].args.username) = toJSON(recordOf(proc[p].args.username))
    => proc[p].resp.status = 200

\* C5: once an update of the full name alone has been written to the store
\* and the request is over, findByUsername returns the new full name
C5_UpdatedValueVisible ==
  \A p \in Procs :
    /\ answered(p, "patch") /\ "updated" \in proc[p].log
    /\ DOMAIN proc[p].args.body = {"fullName"}
    => visible(proc[p].args.username).fullName = proc[p].args.body.fullName

\* C6: after a completed rename the cache holds no entry under the old
\* username and none under the new one
C6_RenameEvictsBothKeys ==
  \A p \in Procs :
    /\ answered(p, "patch") /\ proc[p].resp.status = 200
    /\ DOMAIN proc[p].args.body = {"username"}
    /\ proc[p].args.body.username # proc[p].args.username
    => /\ CACHE_KEYS_USER(proc[p].args.username) \notin DOMAIN cache
       /\ CACHE_KEYS_USER(proc[p].args.body.username) \notin DOMAIN cache

\* C7: a create or a rename is refused with "Username already exists" only
\* when the store holds a record with that username
C7_DuplicateUsernameFromStore ==
  \A p \in Procs :
    /\ at(p, "done") /\ proc[p].op \in {"signup", "patch"}
    /\ proc[p].resp.message = "Username already exists"
    => hasRecord(IF proc[p].op = "signup" THEN proc[p].args.username
                                           ELSE proc[p].args.body.username)

\* C8: the store never holds two records with the same username, the same
\* (lower-cased) email or the same id, and a save refused by a unique index is
\* answered 400 DUPLICATE_ERROR
C8_UniqueRecords ==
  /\ \A r1, r2 \in store :
       \/ r1 = r2
       \/ /\ r1.username # r2.username
          /\ toLowerCase(r1.email) # toLowerCase(r2.email)
          /\ r1.id # r2.id
  /\ \A p \in Procs :
       at(p, "done") /\ "save:MongoServerError" \in proc[p].log
       => proc[p].resp.status = 400 /\ proc[p].resp.code = "DUPLICATE_ERROR"

\* two creates of one username overlapped, both passed the pre-checks, and the
\* loser is answered while the winner's record is in the store
C8_Witness ==
  \E p, q \in Procs :
    /\ p # q /\ answered(p, "signup") /\ proc[q].op = "signup"
    /\ "save:MongoServerError" \in proc[p].log
    /\ proc[p].resp.message = "username already exists"
    /\ proc[q].args.username = proc[p].args.username
    /\ "inserted" \in proc[q].log
    /\ hasRecord(proc[p].args.username)

\* C9: a rejected BF.ADD does not fail the create or update around it: the
\* caller gets the saved record, and the record-cache write is performed
C9_FilterAddFailureSwallowed ==
  \A p \in Procs :
    /\ at(p, "done") /\ proc[p].op \in {"signup", "patch"}
    /\ "bf-error" \in proc[p].log
    /\ proc[p].log \cap {"inserted", "updated"} # {}
    => proc[p].resp.status \in {200, 201}

\* C10: a username for which BF.EXISTS answers 1 keeps that answer in every
\* later state: no step takes a key out of the filter
C10_FilterAppendOnly ==
  [][\A u \in Usernames : bfExists(bloom, u, FALSE) => bfExists(bloom', u, FALSE)]_vars

\* a user was created and deleted, and the filter still holds the username
C10_Witness ==
  \E p \in Procs :
    /\ answered(p, "delete") /\ proc[p].resp.status = 200
    /\ ~hasRecord(proc[p].args.username)
    /\ bfExists(bloom, proc[p].args.username, FALSE)

\* C11: once a user has been created and deleted and the store is empty again,
\* an availability check that passes the filter answers available=true
C11_DeletedUsernameAvailable ==
  \A p \in Procs :
    /\ answered(p, "validate") /\ proc[p].resp.status = 200
    /\ store = {} /\ bfExists(bloom, proc[p].args.username, FALSE)
    => proc[p].resp.data = [available |-> TRUE]

\* the request called User.findByUsername: it read the record cache, the store
\* or both
calledFindByUsername(p) ==
  proc[p].log \cap {"hit:target", "read:target", "cache-error", "store-error"} # {}

C13_EqualQueriesShareKey ==
  \A p \in Procs :
    at(p, "l_find") /\ faults = 0 =>
      \A q \in KeyQueries :
        signature(q) = signature(proc[p].args.query)
        => generateCacheKey(q) \notin DOMAIN cache

\* C14: with one record in the store since the first list request and no
\* failure so far, a list request answered from the cache gets the result its own query has in the
\* store: queries that differ in a signature field do not share a cache key
C14_DifferentQueriesDifferentKeys ==
  \A p \in Procs :
    /\ answered(p, "list") /\ "hit" \in proc[p].log
    /\ nextId = 2 /\ Cardinality(store) = 1 /\ faults = 0
    => proc[p].resp.data = listResult(proc[p].args.query,
                                      findPage(store, proc[p].args.query),
                                      countDocuments(store, proc[p].args.query))

\* the serialized records of a cached or returned value: the record of a
\* single-record value, the page of a list result
recordsIn(value) ==
  IF "user" \in DOMAIN value THEN {value.user}
  ELSE IF "data" \in DOMAIN value
    THEN {value.data.users[i] : i \in 1..Len(value.data.users)}
  ELSE IF "username" \in DOMAIN value THEN {value}
  ELSE {}

\* C15: no cache entry, single-record or list, and no response body holds a
\* password field
C15_NoPasswordSerialized ==
  /\ \A k \in DOMAIN cache : \A r \in recordsIn(cache[k]) : "password" \notin DOMAIN r
  /\ \A p \in Procs :
       at(p, "done") => \A r \in recordsIn(proc[p].resp.data) : "password" \notin DOMAIN r

\* a request was answered with the record of a stored user, whose password
\* hash is in the store, while the cache holds a copy of a record
C15_Witness ==
  \E p \in Procs :
    /\ at(p, "done") /\ proc[p].op \in {"login", "me", "patch", "list"}
    /\ proc[p].resp.status = 200
    /\ \E r \in recordsIn(proc[p].resp.data) :
         \E q \in store : q.id = r.id /\ q.password = "hashed"
    /\ \E k \in DOMAIN cache : recordsIn(cache[k]) # {}

\* a cache call of the request failed, and no filter or store call did
cacheOnlyFailure(p) ==
  /\ "cache-error" \in proc[p].log
  /\ proc[p].log \cap {"bf-error", "store-error", "token-error", "save:MongoNetworkError"} = {}

C17_StoreFailureSurfaced ==
  \A p \in Procs :
    /\ at(p, "done")
    /\ proc[p].op = "signup" => proc[p].args.role = "editor"
    /\ proc[p].log \cap {"store-error", "token-error", "save:MongoNetworkError"} # {}
    => proc[p].resp.status >= 400

\* C18: a list request that reads the store caches the composite it answers
\* with, and a list request that finds its key in the cache answers with the
\* cached composite as it is, without reading the store (no cache call
\* failing in either step)
C18_SecondListFromCache ==
  [][\A p \in Procs :
       LET key == generateCacheKey(proc[p].args.query)
       IN  /\ at(p, "l_set") /\ proc'[p].pc = "done" /\ faults' = faults =>
                /\ key \in DOMAIN cache'
                /\ cache'[key] = proc'[p].resp.data
                /\ proc'[p].resp.status = 200
           /\ at(p, "l_get") /\ proc'[p].pc # "l_get" /\ faults' = faults
                /\ key \in DOMAIN cache =>
                /\ proc'[p].pc = "done"
                /\ proc'[p].resp = Response(200, "OK", "", cache[key])
                /\ "read" \notin proc'[p].log
                /\ cache' = cache]_vars

\* the second of two list requests was answered from the cache with the
\* composite of the first, which is still what the store holds
C18_Witness ==
  \E p \in Procs :
    /\ answered(p, "list") /\ proc[p].log = {"hit"} /\ faults = 0 /\ store # {}
    /\ proc[p].resp.data = cache[generateCacheKey(proc[p].args.query)]
    /\ proc[p].resp.data = listResult(proc[p].args.query,
                                      findPage(store, proc[p].args.query),
                                      countDocuments(store, proc[p].args.query))

\* C19 as stated: after a delete that found the record the cache holds no
\* entry under the record's key
C19_DeleteEvictsRecordKey ==
  \A p \in Procs :
    answered(p, "delete") /\ proc[p].resp.status = 200
    => CACHE_KEYS_USER(proc[p].args.username) \notin DOMAIN cache

\* C19: no step of a delete changes the filter.  findOneAndDelete removes the
\* record of the username and nothing else; the hook's cacheDelete evicts the
\* record's cache key unless the call fails, and the request answers 200 with
\* the record gone.  With no record of the username the request answers 404
\* and store, cache and filter stay as they are.
C19_DeleteFrame ==
  [][\A p \in Procs :
       proc[p].op = "delete" /\ proc'[p] # proc[p] =>
         LET u == proc[p].args.username
         IN  /\ bloom' = bloom
             /\ at(p, "d_del") /\ faults' = faults =>
                  IF hasRecord(u)
                    THEN /\ store' = store \ {recordOf(u)}
                         /\ proc'[p].pc = "d_hook1" /\ cache' = cache
                    ELSE /\ proc'[p].pc = "done"
                         /\ proc'[p].resp.status = 404
                         /\ proc'[p].resp.code = "RESOURCE_NOT_FOUND"
                         /\ store' = store /\ cache' = cache
             /\ at(p, "d_hook1") =>
                  /\ store' = store
                  /\ faults' = faults => CACHE_KEYS_USER(u) \notin DOMAIN cache'
             /\ at(p, "d_hook2") =>
                  /\ store' = store /\ ~hasRecord(u)
                  /\ proc'[p].pc = "done" /\ proc'[p].resp.status = 200
                  /\ "cache-error" \notin proc'[p].log =>
                       CACHE_KEYS_USER(u) \notin DOMAIN cache']_vars

\* a delete found the record, which was cached: the record and its cache
\* entry are gone and the filter still holds the username
C19_Witness ==
  \E p \in Procs :
    /\ answered(p, "delete") /\ proc[p].resp.status = 200
    /\ "cache-error" \notin proc[p].log
    /\ ~hasRecord(proc[p].args.username)
    /\ CACHE_KEYS_USER(proc[p].args.username) \notin DOMAIN cache
    /\ store # {}
    /\ bfExists(bloom, proc[p].args.username, FALSE)

\* the request is a PATCH with role in its body, and auth found its caller
\* to be a user whose role is not admin
roleChangeByNonAdmin(p) ==
  /\ proc[p].op = "patch" /\ "role" \in DOMAIN proc[p].args.body
  /\ proc[p].caller # Undef /\ proc[p].caller.f.role # "admin"

\* C20 as stated: such a request, with no store or cache call failing, is
\* answered AUTHORIZATION_ERROR
C20_RoleChangeAuthorizationError ==
  \A p \in Procs :
    /\ roleChangeByNonAdmin(p) /\ at(p, "done")
    /\ proc[p].log \cap {"store-error", "cache-error"} = {}
    => proc[p].resp.code = "AUTHORIZATION_ERROR"

\* C20: such a request never reaches user.save() and writes nothing; with no
\* store or cache call failing it is answered 403 AUTHORIZATION_ERROR, or 404
\* RESOURCE_NOT_FOUND when the caller is an editor and the target has no
\* record
C20_RoleChangeNeedsAdmin ==
  \A p \in Procs :
    roleChangeByNonAdmin(p) =>
      /\ proc[p].pc \notin {"save", "post_bf", "post_set", "post_del"}
      /\ proc[p].log \cap {"inserted", "updated"} = {}
      /\ at(p, "done") /\ proc[p].log \cap {"store-error", "cache-error"} = {} =>
           \/ proc[p].resp.status = 403 /\ proc[p].resp.code = "AUTHORIZATION_ERROR"
           \/ /\ proc[p].resp.status = 404 /\ proc[p].resp.code = "RESOURCE_NOT_FOUND"
              /\ ~hasRecord(proc[p].args.username)
              /\ proc[p].caller.f.role = "editor"

\* an editor asked for the admin role on an existing user and was refused by
\* the handler's role check; the target's role is as before
C20_Witness ==
  \E p \in Procs :
    /\ roleChangeByNonAdmin(p) /\ at(p, "done")
    /\ proc[p].caller.f.role = "editor"
    /\ proc[p].args.body.role = "admin"
    /\ hasRecord(proc[p].args.username)
    /\ recordOf(proc[p].args.username).role # "admin"
    /\ proc[p].resp = Response(403, "AUTHORIZATION_ERROR",
                               "Only admins can update user roles", Undef)

C22_InvalidationIdempotent ==
  \A u \in Targets :
    /\ invalidation(invalidation(cache, u), u) = invalidation(cache, u)
    /\ DOMAIN cache \cap {CACHE_KEYS_USER(u), ALL_USERS} = {} => invalidation(cache, u) = cache

\* the hook of a delete has just evicted the record's key, and the cache
\* still holds other entries
C22_Witness ==
  \E p \in Procs :
    /\ answered(p, "delete") /\ proc[p].resp.status = 200
    /\ "cache-error" \notin proc[p].log
    /\ CACHE_KEYS_USER(proc[p].args.username) \notin DOMAIN cache
    /\ DOMAIN cache # {}
    /\ invalidation(cache, proc[p].args.username) = cache

\* C23: with no request in progress, the filter holds the username of every
\* record in the store
C23_FilterCoversStore ==
  (\A p \in Procs : at(p, "idle")) =>
    \A r \in store : bfExists(bloom, r.username, FALSE)

\* C24: the steps of a signup change the shared state in this order and in no
\* other way: user.save() inserts the record or, when it fails, leaves store,
\* filter and cache as they are and ends the request; then BF.ADD adds the
\* username to the filter; then cacheSet writes the record's key; then
\* cacheDelete removes the key 'all_users'.  Before the save nothing but a
\* read-through cacheSet changes anything.
C24_CreateOrder ==
  [][\A p \in Procs :
       proc[p].op = "signup" /\ proc'[p] # proc[p] =>
         LET u   == proc[p].args.username
             key == CACHE_KEYS_USER(u)
         IN  /\ at(p, "save") =>
                  /\ bloom' = bloom /\ cache' = cache
                  /\ IF proc'[p].pc = "done"
                       THEN store' = store /\ proc'[p].resp.status >= 400
                       ELSE /\ proc'[p].pc = "post_bf"
                            /\ store' = store \cup {proc'[p].user.f}
                            /\ proc'[p].user.f \notin store
             /\ at(p, "post_bf") =>
                  /\ store' = store /\ cache' = cache
                  /\ IF proc'[p].pc = "done"
                       THEN bloom' = bloom
                       ELSE proc'[p].pc = "post_set" /\ bloom' = bfAdd(bloom, u)
             /\ at(p, "post_set") =>
                  /\ store' = store /\ bloom' = bloom /\ proc'[p].pc = "post_del"
                  /\ \/ cache' = cache /\ "cache-error" \in proc'[p].log
                     \/ cache' = cacheSet(cache, key, toJSON(proc[p].user.f), TRUE)
             /\ at(p, "post_del") =>
                  /\ store' = store /\ bloom' = bloom /\ proc'[p].pc = "done"
                  /\ \/ cache' = cache /\ "cache-error" \in proc'[p].log
                     \/ cache' = cacheDelete(cache, ALL_USERS, TRUE)
             /\ proc[p].pc \notin {"save", "post_bf", "post_set", "post_del"} =>
                  /\ store' = store /\ bloom' = bloom
                  /\ proc'[p].pc \notin {"post_bf", "post_set", "post_del"}
                  /\ at(p, "fbu_set") \/ cache' = cache]_vars

\* a signup lost the race for an email at the unique index: its save failed
\* and neither the filter nor the cache knows its username
C24_Witness ==
  \E p \in Procs :
    /\ answered(p, "signup") /\ "save:MongoServerError" \in proc[p].log
    /\ proc[p].resp.message = "email already exists"
    /\ ~hasRecord(proc[p].args.username)
    /\ ~bfExists(bloom, proc[p].args.username, FALSE)
    /\ CACHE_KEYS_USER(proc[p].args.username) \notin DOMAIN cache

\* C25: findByUsername with its key in the cache (and Redis answering) ends
\* on the hit, without a store read and without a write; with the key absent
\* it reads the store; it goes on to cacheSet only with the record it found,
\* and cacheSet writes that record's JSON under 'user:<username>' with an
\* expiry of 3600 s and nothing else; a read that finds no record writes
\* nothing
C25_ReadThrough ==
  [][\A p \in Procs :
       proc'[p] # proc[p] /\ proc[p].pc \in {"fbu_get", "fbu_find", "fbu_set"} =>
         LET u   == lookupName(proc[p])
             key == CACHE_KEYS_USER(u)
         IN  /\ store' = store /\ bloom' = bloom
             /\ at(p, "fbu_get") =>
                  /\ cache' = cache /\ ttl' = ttl
                  /\ IF key \in DOMAIN cache /\ faults' = faults
                       THEN /\ proc'[p].pc \notin {"fbu_find", "fbu_set"}
                            /\ "hit:" \o proc[p].stage \in proc'[p].log
                            /\ "read:" \o proc[p].stage \notin proc'[p].log
                       ELSE proc'[p].pc = "fbu_find"
             /\ at(p, "fbu_find") =>
                  /\ cache' = cache /\ ttl' = ttl
                  /\ proc'[p].pc = "fbu_set" <=> (faults' = faults /\ hasRecord(u))
                  /\ proc'[p].pc = "fbu_set" => proc'[p].users = <<hydrate(recordOf(u))>>
             /\ at(p, "fbu_set") =>
                  \/ cache' = cache /\ ttl' = ttl /\ "cache-error" \in proc'[p].log
                  \/ /\ DOMAIN cache' = DOMAIN cache \cup {key}
                     /\ cache'[key] = toJSON(proc[p].users[1].f)
                     /\ ttl'[key] = DefaultExpireSeconds
                     /\ \A k \in DOMAIN cache \ {key} : cache'[k] = cache[k] /\ ttl'[k] = ttl[k]
                     /\ hasRecord(u) /\ cache'[key] = toJSON(recordOf(u))]_vars

\* an availability check passed the filter for a username without record
\* (it was deleted), read the store and left no cache entry behind
C25_Witness ==
  \E p \in Procs :
    /\ answered(p, "validate") /\ proc[p].log = {"read:target"}
    /\ bfExists(bloom, proc[p].args.username, FALSE)
    /\ ~hasRecord(proc[p].args.username)
    /\ CACHE_KEYS_USER(proc[p].args.username) \notin DOMAIN cache
    /\ proc[p].resp.data = [available |-> TRUE]

\* the integer n clamped to lo..hi
clamped(n, lo, hi) == IF n < lo THEN lo ELSE IF n > hi THEN hi ELSE n

\* C26: a list request answered from the store reports limit = the given
\* limit clamped to 1..100 (20 when absent), page = the given page raised to
\* at least 1 (1 when absent), total = the number of records matching the
\* role and search conditions, and totalPages = ceil(total / limit); its
\* page holds the matching records number skip+1 .. skip+limit, skip =
\* (page-1)*limit, in the order of the sort field (createdAt unless username
\* or email is given) and direction (desc unless asc is given)
C26_ListNormalized ==
  \A p \in Procs :
    answered(p, "list") /\ "read" \in proc[p].log /\ proc[p].resp.status = 200 =>
      LET q     == proc[p].args.query
          m     == proc[p].resp.data.metadata
          us    == proc[p].resp.data.data.users
          hits  == {r \in store : matches(r, q)}
          field == IF q.sort \in {"username", "email"} THEN q.sort ELSE "createdAt"
          asc   == q.order = "asc"
          before(a, b) == IF asc THEN sortKey(a, field) < sortKey(b, field)
                                 ELSE sortKey(a, field) > sortKey(b, field)
          skip  == (m.page - 1) * m.limit
      IN  /\ m.limit = clamped(IF q.limit = None THEN 20 ELSE parseInt(q.limit), 1, 100)
          /\ m.page = (IF q.page = None \/ parseInt(q.page) < 1 THEN 1 ELSE parseInt(q.page))
          /\ m.total = Cardinality(hits)
          /\ m.totalPages * m.limit >= m.total
          /\ (m.totalPages = 0 /\ m.total = 0) \/ (m.totalPages - 1) * m.limit < m.total
          /\ Len(us) = clamped(m.total - skip, 0, m.limit)
          /\ \A i \in 1..Len(us) :
               \E r \in hits :
                 /\ us[i] = toJSON(r)
                 /\ Cardinality({h \in hits : before(h, r)}) = skip + i - 1

\* the second page of one record each, of two records
C26_Witness ==
  \E p \in Procs :
    /\ answered(p, "list") /\ "read" \in proc[p].log
    /\ proc[p].args.query.limit = "1" /\ proc[p].args.query.page = "2"
    /\ Cardinality(store) = 2
    /\ Len(proc[p].resp.data.data.users) = 1
    /\ proc[p].resp.data.data.users[1].id = 1
    /\ proc[p].resp.data.metadata = [page |-> 2, limit |-> 1, total |-> 2, totalPages |-> 2]

\* C27: when an availability check that read the store has been answered, no
\* call has failed and no other request is in progress, whatever requests
\* overlapped it, the entry 'user:<username>' is either absent or the store's
\* current record of that username
C27_ReadsLeaveCacheCurrent ==
  \A p \in Procs :
    /\ faults = 0
    /\ answered(p, "validate") /\ "read:target" \in proc[p].log
    /\ \A q \in Procs \ {p} : at(q, "idle")
    => LET u == proc[p].args.username
       IN  \/ CACHE_KEYS_USER(u) \notin DOMAIN cache
           \/ hasRecord(u) /\ cache[CACHE_KEYS_USER(u)] = toJSON(recordOf(u))

\* C28: the user.save() of a PATCH request, no call having failed, adds no
\* record to the store: every record of the store afterwards has the id of a
\* record that was in the store before, and the store holds no more records
\* than before
C28_UpdateNeverInserts ==
  [][\A p \in Procs :
       at(p, "save") /\ proc[p].op = "patch" /\ proc'[p] # proc[p] /\ faults' = 0 =>
         /\ {r.id : r \in store'} \subseteq {r.id : r \in store}
         /\ Cardinality(store') <= Cardinality(store)]_vars

\* C29: a signup that names no role and whose user.save() inserts a record
\* with role admin, no call having failed, inserts it into an empty store
C29_OneFirstAdmin ==
  [][\A p \in Procs :
       /\ at(p, "save") /\ proc[p].op = "signup" /\ proc[p].args.role = None
       /\ proc'[p] # proc[p] /\ faults' = 0
       => \A r \in store' \ store : r.role = "admin" => store = {}]_vars

\* the steps of a request after its user.save() has succeeded
PostSaveSteps == {"post_bf", "post_set", "post_del"}

\* the step of request p is a record-cache read-through: it leaves every
\* entry as it is, or writes one entry 'user:<u>' with the store's record of u
readThroughOnly(p) ==
  /\ DOMAIN cache \subseteq DOMAIN cache'
  /\ \A key \in DOMAIN cache' :
       \/ key \in DOMAIN cache /\ cache'[key] = cache[key]
       \/ \E r \in store : /\ key = CACHE_KEYS_USER(r.username)
                           /\ cache'[key] = [k \in DOMAIN r \ {"password"} |-> r[k]]

====
